---- MODULE Spec2Model ----
(* Spawn lifecycle and capture engine of the pokebot repository:            *)
(* RawSQLSpawnService (bot/services/fast_spawn_service.py, "fast") and      *)
(* SpawnService (bot/services/spawn_service.py, "slow") working on the same *)
(* PostgreSQL tables `spawns` and `pokemon`.  Every await on the store is a *)
(* separate step, so calls interleave exactly where the coroutines can.     *)
(* Statements run at PostgreSQL's default READ COMMITTED isolation: a plain *)
(* SELECT takes no lock, an UPDATE locks its row until the transaction ends *)
(* and a blocked UPDATE re-evaluates its WHERE clause on the committed row.  *)
EXTENDS Integers, FiniteSets, Sequences, TLC

(* ---------------------------------------------------------------------- *)
(* Bounds of the model                                                      *)
(* ---------------------------------------------------------------------- *)
MaxCalls == 3        \* service calls issued in one behaviour
MaxTime == 2         \* last clock tick
MaxRand == 1         \* distinct random suffixes of a generated id
MinutesPerTick == 5  \* resolution of the model clock
MaxTasks == 2        \* spawn loops start_auto_spawning creates in one behaviour
MaxClock == 60       \* last value of time.time(), in seconds

(* ---------------------------------------------------------------------- *)
(* Program constants                                                        *)
(* ---------------------------------------------------------------------- *)
FastWindowMinutes == 10
SlowWindowMinutes == 8
CooldownSeconds == 30

FastWindow == FastWindowMinutes \div MinutesPerTick
SlowWindow == SlowWindowMinutes \div MinutesPerTick

Calls == 1..MaxCalls
Chats == {"g1"}
Users == {"userA", "userB"}
Services == {"fast", "slow"}
SpeciesNames == {"pikachu"}
Levels == {5}
FastRarities == {"common"}
ShinyRolls == {FALSE}

NoId == <<0, 0>>
UnknownId == <<0 - 1, 0>>
NoUser == "nobody"
NoTime == 0 - 1

\* A row of table `spawns`.
SpawnRow(id, chat, sp, lvl, shiny, rar, t, exp) ==
    [spawn_id |-> id, chat_id |-> chat, species |-> sp, level |-> lvl,
     is_shiny |-> shiny, rarity |-> rar, spawned_at |-> t, expires_at |-> exp,
     is_caught |-> FALSE, caught_by |-> NoUser, caught_at |-> NoTime]

NoRow == SpawnRow(NoId, "", "", 0, FALSE, "", NoTime, NoTime)

\* An entry of RawSQLSpawnService._spawn_cache.
CacheEntry(r) ==
    [spawn_id |-> r.spawn_id, species |-> r.species, level |-> r.level,
     is_shiny |-> r.is_shiny, rarity |-> r.rarity]

NoEntry == CacheEntry(NoRow)

\* A row of table `pokemon`, made from the spawn row the capture read.
PokemonRow(pid, owner, r) ==
    [pokemon_id |-> pid, owner_id |-> owner, species |-> r.species,
     level |-> r.level, is_shiny |-> r.is_shiny, rarity |-> r.rarity]

IdleCall ==
    [op |-> "none", svc |-> "fast", pc |-> "idle", chat_id |-> "", user_id |-> NoUser,
     spawn_id |-> NoId, row |-> NoRow, hit |-> FALSE, t0 |-> NoTime,
     at |-> NoTime, ret |-> ""]

VARIABLES now, spawns, pokemon, cache, calls

\* FastSchedulerService: its fields, the asyncio tasks start_auto_spawning has
\* created and the stop_auto_spawning call.
VARIABLES running, active_channels, spawn_task, tasks, stop

\* handlers/spawn.py: the module-level cooldown map, the value of time.time()
\* in seconds and what the last cooldown check answered; handled is the
\* last command a handler was entered for, its channel, and a bit that tells
\* two commands in a row apart.
VARIABLES user_cooldowns, clock, answer, handled

\* The force_spawn_all_channels call: where it is, the set iterator of its
\* `for` (the size of the set when it was made and its place in the table),
\* the set as it was then, the channels tried, the one in hand, the count.
VARIABLES force

storevars == <<now, spawns, pokemon, cache, calls>>

schedvars == <<running, active_channels, spawn_task, tasks, stop>>

coolvars == <<user_cooldowns, clock, answer, handled>>

\* What the service coroutines of the two spawn services never touch.
others == <<schedvars, coolvars, force>>

vars == <<now, spawns, pokemon, cache, calls, schedvars, coolvars, force>>

(* ---------------------------------------------------------------------- *)
(* Store queries                                                            *)
(* ---------------------------------------------------------------------- *)
\* WHERE is_caught = false AND expires_at > NOW()
IsActive(r, t) == ~r.is_caught /\ r.expires_at > t

ActiveRows(chat, t) == {r \in spawns : r.chat_id = chat /\ IsActive(r, t)}

RowsById(id) == {r \in spawns : r.spawn_id = id}

\* ORDER BY spawned_at DESC LIMIT 1
LatestOf(rows) == {r \in rows : \A q \in rows : q.spawned_at <= r.spawned_at}

\* Rows whose UPDATE by an open capture transaction is not yet committed.
Locked(id) ==
    \E q \in Calls : /\ calls[q].op = "catch"
                     /\ calls[q].pc \in {"insert", "commit"}
                     /\ calls[q].hit
                     /\ calls[q].spawn_id = id

\* A call that has returned keeps what its caller has in hand: the operation,
\* the channel or spawn id it was about and the result; its locals are gone.
Returned(c, result) ==
    [IdleCall EXCEPT !.op = c.op, !.pc = "done", !.spawn_id = c.spawn_id,
                     !.chat_id = IF c.op = "catch" THEN "" ELSE c.chat_id,
                     !.ret = result]

Finish(p, result) == [calls EXCEPT ![p] = Returned(calls[p], result)]

\* Calls are issued one after the other; they overlap from then on.
CanIssue(p) == calls[p].pc = "idle" /\ \A q \in Calls : q < p => calls[q].pc # "idle"

(* ---------------------------------------------------------------------- *)
(* Clock                                                                    *)
(* ---------------------------------------------------------------------- *)
Tick ==
    /\ now < MaxTime
    /\ now' = now + 1
    /\ UNCHANGED <<spawns, pokemon, cache, calls>>
    /\ UNCHANGED others

(* ---------------------------------------------------------------------- *)
(* create_spawn                                                             *)
(* ---------------------------------------------------------------------- *)
\* The existence check with `is_caught = false` left out of the WHERE clause.
ExistingSpawnIgnoringCaught(chat, t) ==
    \E r \in spawns : r.chat_id = chat /\ r.expires_at > t

\* SELECT ... WHERE chat_id = $1 AND is_caught = false AND expires_at > NOW()
ExistingSpawn(chat, t) == ActiveRows(chat, t) # {}

\* timedelta(minutes=10) in the fast service, timedelta(minutes=8) in the slow one
Window(svc) == IF svc = "fast" THEN FastWindow ELSE SlowWindow

\* The payloads the random generation of each service can produce:
\* fast: rarity = 'legendary' if is_shiny else one of the plain rarities;
\* slow: rarity = RARE if is_shiny else COMMON.
Payloads(svc) ==
    {pl \in [species : SpeciesNames, level : Levels, is_shiny : ShinyRolls,
             rarity : FastRarities \cup {"legendary"}] :
        IF svc = "fast"
        THEN pl.rarity = "legendary" <=> pl.is_shiny
        ELSE pl.rarity = (IF pl.is_shiny THEN "rare" ELSE "common")}

\* The call is issued and its existence check runs on the store.
CreateCheck(p, svc, chat) ==
    /\ CanIssue(p)
    /\ calls' = [calls EXCEPT ![p] =
                   IF ExistingSpawn(chat, now)
                   THEN [IdleCall EXCEPT !.op = "create", !.chat_id = chat, !.pc = "done",
                                         !.ret = "False"]
                   ELSE [IdleCall EXCEPT !.op = "create", !.svc = svc, !.chat_id = chat,
                                         !.pc = "insert"]]
    /\ UNCHANGED <<now, spawns, pokemon, cache>>
    /\ UNCHANGED others

\* spawn_id: the timestamp followed by a random part; the fast service writes
\* f"spawn_{ts}_{digits}", generate_id of the slow one f"spawn_{ts}{chars}",
\* so ids of the two services never coincide.
SpawnId(svc, t, r) == <<t, IF svc = "fast" THEN r ELSE 0 - r>>

\* The INSERT runs on the store; a spawn_id that exists violates the UNIQUE
\* constraint and the exception handler returns failure.
CreateInsert(p, r, pl) ==
    /\ calls[p].op = "create" /\ calls[p].pc = "insert"
    /\ pl \in Payloads(calls[p].svc)
    /\ LET id == SpawnId(calls[p].svc, now, r)
           row == SpawnRow(id, calls[p].chat_id, pl.species, pl.level, pl.is_shiny,
                           pl.rarity, now, now + Window(calls[p].svc))
       IN IF RowsById(id) # {}
          THEN /\ calls' = Finish(p, "False")
               /\ UNCHANGED spawns
          ELSE /\ spawns' = spawns \cup {row}
               /\ calls' = [calls EXCEPT ![p] =
                             IF calls[p].svc = "fast"
                             THEN [calls[p] EXCEPT !.pc = "cache", !.spawn_id = id, !.row = row]
                             ELSE Returned([calls[p] EXCEPT !.spawn_id = id], "True")]
    /\ UNCHANGED <<now, pokemon, cache>>
    /\ UNCHANGED others

\* Slow service: both catalog lookups return nothing, no store write.
CreateCatalogFail(p) ==
    /\ calls[p].op = "create" /\ calls[p].pc = "insert" /\ calls[p].svc = "slow"
    /\ calls' = Finish(p, "False")
    /\ UNCHANGED <<now, spawns, pokemon, cache>>
    /\ UNCHANGED others

\* What pokeapi.get_pokemon_data hands back: the entry of a species, or
\* nothing (None: unknown id, HTTP error, network failure).
NoData == "missing"

LookupResults == SpeciesNames \cup {NoData}

\* Slow service, the catalog lookup for the species id drawn from 1..1010;
\* the entry found is kept in the local pokemon_data, and without one the
\* call goes on to the fallback lookup.
CreateLookup(p, data) ==
    /\ calls[p].op = "create" /\ calls[p].pc = "insert" /\ calls[p].svc = "slow"
    /\ calls[p].row = NoRow
    /\ data \in LookupResults
    /\ calls' = [calls EXCEPT ![p] =
                   IF data = NoData
                   THEN [@ EXCEPT !.pc = "fallback"]
                   ELSE [@ EXCEPT !.row = [NoRow EXCEPT !.species = data]]]
    /\ UNCHANGED <<now, spawns, pokemon, cache>>
    /\ UNCHANGED others

\* A fallback lookup whose empty answer is carried on to the INSERT.
CreateFallbackKeepsGoing(p, data) ==
    /\ calls[p].op = "create" /\ calls[p].pc = "fallback"
    /\ data \in LookupResults
    /\ calls' = [calls EXCEPT ![p] =
                   [@ EXCEPT !.pc = "insert", !.row = [NoRow EXCEPT !.species = data]]]
    /\ UNCHANGED <<now, spawns, pokemon, cache>>
    /\ UNCHANGED others

\* Slow service, the second lookup with an id drawn from 1..151: without an
\* entry create_spawn returns None, with one it goes on to the INSERT.
CreateFallback(p, data) ==
    /\ calls[p].op = "create" /\ calls[p].pc = "fallback"
    /\ data \in LookupResults
    /\ calls' = IF data = NoData
                THEN Finish(p, "False")
                ELSE [calls EXCEPT ![p] =
                        [@ EXCEPT !.pc = "insert", !.row = [NoRow EXCEPT !.species = data]]]
    /\ UNCHANGED <<now, spawns, pokemon, cache>>
    /\ UNCHANGED others

\* Slow service, the INSERT with species_name = pokemon_data['name'].
CreateInsertLooked(p, r, pl) ==
    /\ calls[p].op = "create" /\ calls[p].pc = "insert" /\ calls[p].svc = "slow"
    /\ calls[p].row # NoRow
    /\ pl \in Payloads("slow")
    /\ LET id == SpawnId("slow", now, r)
           row == SpawnRow(id, calls[p].chat_id, calls[p].row.species, pl.level,
                           pl.is_shiny, pl.rarity, now, now + Window("slow"))
       IN IF RowsById(id) # {}
          THEN /\ calls' = Finish(p, "False")
               /\ UNCHANGED spawns
          ELSE /\ spawns' = spawns \cup {row}
               /\ calls' = [calls EXCEPT ![p] =
                             Returned([calls[p] EXCEPT !.spawn_id = id], "True")]
    /\ UNCHANGED <<now, pokemon, cache>>
    /\ UNCHANGED others

\* A failing INSERT that has the cache written all the same.
CreateFailCaches(p) ==
    /\ calls[p].op = "create" /\ calls[p].pc = "insert"
    /\ cache' = [cache EXCEPT ![calls[p].chat_id] =
                   CacheEntry(SpawnRow(SpawnId(calls[p].svc, now, 1), calls[p].chat_id,
                                       "pikachu", 5, FALSE, "common", now, now))]
    /\ calls' = Finish(p, "False")
    /\ UNCHANGED <<now, spawns, pokemon>>
    /\ UNCHANGED others

\* The store fails while the INSERT is under way (connection lost, timeout):
\* `except Exception` logs and returns failure; nothing was written.
CreateFail(p) ==
    /\ calls[p].op = "create" /\ calls[p].pc = "insert"
    /\ calls' = Finish(p, "False")
    /\ UNCHANGED <<now, spawns, pokemon, cache>>
    /\ UNCHANGED others

\* Fast service: the coroutine resumes after the INSERT and fills the cache.
CreateCache(p) ==
    /\ calls[p].op = "create" /\ calls[p].pc = "cache"
    /\ cache' = [cache EXCEPT ![calls[p].chat_id] = CacheEntry(calls[p].row)]
    /\ calls' = Finish(p, "True")
    /\ UNCHANGED <<now, spawns, pokemon>>
    /\ UNCHANGED others

(* ---------------------------------------------------------------------- *)
(* get_active_spawn                                                         *)
(* ---------------------------------------------------------------------- *)
\* Fast service: `if chat_id in self._spawn_cache: return cached`.
CacheHit(chat, t) == cache[chat] # NoEntry

\* The call is issued and looks into the cache first; a hit is returned as
\* it is.
GetCheck(p, chat) ==
    /\ CanIssue(p)
    /\ calls' = [calls EXCEPT ![p] =
                   IF CacheHit(chat, now)
                   THEN [IdleCall EXCEPT !.op = "get", !.chat_id = chat, !.pc = "done",
                                         !.spawn_id = cache[chat].spawn_id, !.ret = "Some"]
                   ELSE [IdleCall EXCEPT !.op = "get", !.chat_id = chat, !.pc = "query"]]
    /\ UNCHANGED <<now, spawns, pokemon, cache>>
    /\ UNCHANGED others

\* SELECT ... WHERE chat_id = $1 AND is_caught = false AND expires_at > NOW()
\* ORDER BY spawned_at DESC LIMIT 1
GetQuery(p) ==
    /\ calls[p].op = "get" /\ calls[p].pc = "query"
    /\ LET rows == LatestOf(ActiveRows(calls[p].chat_id, now))
       IN IF rows = {}
          THEN calls' = Finish(p, "None")
          ELSE \E r \in rows : calls' = [calls EXCEPT ![p].pc = "fill", ![p].row = r]
    /\ UNCHANGED <<now, spawns, pokemon, cache>>
    /\ UNCHANGED others

\* A get_active_spawn that returns the row it read without caching it.
GetFillNoCache(p) ==
    /\ calls[p].op = "get" /\ calls[p].pc = "fill"
    /\ calls' = [calls EXCEPT ![p] =
                   Returned([calls[p] EXCEPT !.spawn_id = calls[p].row.spawn_id], "Some")]
    /\ UNCHANGED <<now, spawns, pokemon, cache>>
    /\ UNCHANGED others

\* The coroutine resumes after the sprite lookup, fills the cache with the
\* row it read and returns it.
GetFill(p) ==
    /\ calls[p].op = "get" /\ calls[p].pc = "fill"
    /\ cache' = [cache EXCEPT ![calls[p].chat_id] = CacheEntry(calls[p].row)]
    /\ calls' = [calls EXCEPT ![p] =
                   Returned([calls[p] EXCEPT !.spawn_id = calls[p].row.spawn_id], "Some")]
    /\ UNCHANGED <<now, spawns, pokemon>>
    /\ UNCHANGED others

(* ---------------------------------------------------------------------- *)
(* catch_spawn                                                              *)
(* ---------------------------------------------------------------------- *)
\* The first SELECT with `expires_at > NOW()` left out in the fast service.
CatchSelectNoExpiry(svc, id, t) == RowsById(id)

\* The rows the first SELECT of catch_spawn returns: the fast service filters
\* `expires_at > NOW()` in the query, the slow service selects by id only.
CatchSelect(svc, id, t) ==
    IF svc = "fast"
    THEN {r \in RowsById(id) : r.expires_at > t}
    ELSE RowsById(id)

\* The checks with `if spawn['is_caught']` left out.
CatchRejectIgnoresCaught(svc, r, t) ==
    IF svc = "slow" /\ r.expires_at < t THEN "Fled" ELSE ""

\* The checks between the SELECT and the roll; "" lets the attempt go on.
CatchReject(svc, r, t) ==
    IF r.is_caught THEN "AlreadyCaught"
    ELSE IF svc = "slow" /\ r.expires_at < t THEN "Fled"
    ELSE ""

\* The call is issued, its transaction begins and the SELECT runs.
CatchRead(p, svc, id, user) ==
    /\ CanIssue(p)
    /\ LET c == [IdleCall EXCEPT !.op = "catch", !.svc = svc, !.spawn_id = id,
                                 !.user_id = user, !.t0 = now]
           rows == CatchSelect(svc, id, now)
       IN IF rows = {}
          THEN calls' = [calls EXCEPT ![p] =
                           Returned(c, IF svc = "fast" THEN "Disappeared" ELSE "NotFound")]
          ELSE \E r \in rows :
                 calls' = [calls EXCEPT ![p] =
                             IF CatchReject(svc, r, now) # ""
                             THEN Returned(c, CatchReject(svc, r, now))
                             ELSE [c EXCEPT !.pc = "roll", !.row = r, !.chat_id = r.chat_id]]
    /\ UNCHANGED <<now, spawns, pokemon, cache>>
    /\ UNCHANGED others

\* A failed roll that marks the spawn as taken before it returns.
CatchMissConsumes(p) ==
    /\ calls[p].op = "catch" /\ calls[p].pc = "roll"
    /\ spawns' = {IF r.spawn_id = calls[p].spawn_id
                  THEN [r EXCEPT !.is_caught = TRUE, !.caught_by = calls[p].user_id,
                                 !.caught_at = now]
                  ELSE r : r \in spawns}
    /\ calls' = Finish(p, "Escaped")
    /\ UNCHANGED <<now, pokemon, cache>>
    /\ UNCHANGED others

\* The success roll fails: the call returns without any write.
CatchMiss(p) ==
    /\ calls[p].op = "catch" /\ calls[p].pc = "roll"
    /\ calls' = Finish(p, "Escaped")
    /\ UNCHANGED <<now, spawns, pokemon, cache>>
    /\ UNCHANGED others

\* The rows `UPDATE spawns SET is_caught = true, ... WHERE spawn_id = $1` hits.
UpdateTargets(id) == RowsById(id)

\* caught_at: NOW() is the transaction's start time (fast), utcnow() the
\* moment the statement is sent (slow).
CaughtAt(svc, t0, t) == IF svc = "fast" THEN t0 ELSE t

\* The roll succeeds and the UPDATE runs; it waits while another transaction
\* holds the row, then applies to the committed row, if it still exists.
CatchUpdate(p) ==
    /\ calls[p].op = "catch" /\ calls[p].pc = "roll"
    /\ ~Locked(calls[p].spawn_id)
    /\ calls' = [calls EXCEPT ![p].pc = IF calls[p].svc = "fast" THEN "insert" ELSE "commit",
                              ![p].hit = (UpdateTargets(calls[p].spawn_id) # {}),
                              ![p].at = CaughtAt(calls[p].svc, calls[p].t0, now)]
    /\ UNCHANGED <<now, spawns, pokemon, cache>>
    /\ UNCHANGED others

\* Fast service: the INSERT into pokemon and the users statements have run
\* inside the transaction and the coroutine drops the channel's cache entry
\* before the transaction block commits.  (The slow service has no cache; its
\* statements after the UPDATE change nothing another call can see.)
CatchInsert(p) ==
    /\ calls[p].op = "catch" /\ calls[p].pc = "insert"
    /\ calls' = [calls EXCEPT ![p].pc = "commit"]
    /\ cache' = [cache EXCEPT ![calls[p].chat_id] = NoEntry]
    /\ UNCHANGED <<now, spawns, pokemon>>
    /\ UNCHANGED others

\* A failure after which the UPDATE of the spawn row stays in the store.
CatchFailKeepsUpdate(p) ==
    /\ calls[p].op = "catch" /\ calls[p].pc \in {"insert", "commit"}
    /\ spawns' = {IF r.spawn_id = calls[p].spawn_id
                  THEN [r EXCEPT !.is_caught = TRUE, !.caught_by = calls[p].user_id,
                                 !.caught_at = calls[p].at]
                  ELSE r : r \in spawns}
    /\ calls' = Finish(p, "Error")
    /\ UNCHANGED <<now, pokemon, cache>>
    /\ UNCHANGED others

\* A statement of the transaction raises: rollback, "Catch failed!".
CatchFail(p) ==
    /\ calls[p].op = "catch" /\ calls[p].pc \in {"insert", "commit"}
    /\ calls' = Finish(p, "Error")
    /\ UNCHANGED <<now, spawns, pokemon, cache>>
    /\ UNCHANGED others

\* An UPDATE without its WHERE clause: every row is marked.
MarkCaughtEveryRow(rows, id, user, t) ==
    {[r EXCEPT !.is_caught = TRUE, !.caught_by = user, !.caught_at = t] : r \in rows}

\* The committed effect of the capture transaction on table spawns.
MarkCaught(rows, id, user, t) ==
    {IF r.spawn_id = id
     THEN [r EXCEPT !.is_caught = TRUE, !.caught_by = user, !.caught_at = t]
     ELSE r : r \in rows}

\* The transaction commits and the call returns success.
CatchCommit(p) ==
    /\ calls[p].op = "catch" /\ calls[p].pc = "commit"
    /\ spawns' = IF calls[p].hit
                 THEN MarkCaught(spawns, calls[p].spawn_id, calls[p].user_id, calls[p].at)
                 ELSE spawns
    /\ pokemon' = pokemon \cup {PokemonRow(p, calls[p].user_id, calls[p].row)}
    /\ calls' = Finish(p, "Captured")
    /\ UNCHANGED <<now, cache>>
    /\ UNCHANGED others

(* ---------------------------------------------------------------------- *)
(* cleanup                                                                  *)
(* ---------------------------------------------------------------------- *)
\* The DELETE without `AND is_caught = false`.
SweepableIgnoringCaught(r, t) == r.expires_at < t

\* DELETE FROM spawns WHERE expires_at < NOW() AND is_caught = false
Sweepable(r, t) == r.expires_at < t /\ ~r.is_caught

\* The DELETE waits for rows an open capture transaction has updated.
\* RawSQLSpawnService.cleanup_expired also clears the whole cache; the sweeps
\* of SpawnService and FastSchedulerService do not touch it.
Cleanup(clear) ==
    /\ \A r \in spawns : Sweepable(r, now) => ~Locked(r.spawn_id)
    /\ spawns' = {r \in spawns : ~Sweepable(r, now)}
    /\ cache' = IF clear THEN [c \in Chats |-> NoEntry] ELSE cache
    /\ UNCHANGED <<now, pokemon, calls>>
    /\ UNCHANGED others

(* ---------------------------------------------------------------------- *)
(* FastSchedulerService                                                     *)
(* ---------------------------------------------------------------------- *)
Tasks == 1..MaxTasks

NoTask == 0

\* An asyncio task running _spawn_loop: where the coroutine is suspended,
\* whether cancel() has been called on it, and the locals of the create_spawn
\* call it is in.  success is what its last create_spawn attempt came to.
NewTask == [pc |-> "none", cancel |-> FALSE, chat_id |-> "", row |-> NoRow, success |-> ""]

IdleStop == [pc |-> "idle", task |-> NoTask]

Terminated(k) == k.pc \in {"cancelled", "finished"}

Alive(k) == k.pc \notin {"none", "cancelled", "finished"}

\* A task runs its coroutine only while no cancellation is pending on it.
Runs(t, where) == tasks[t].pc \in where /\ ~tasks[t].cancel

\* self.active_channels.add(chat_id)
RegisterChannel(chat) ==
    /\ active_channels' = active_channels \cup {chat}
    /\ UNCHANGED <<running, spawn_task, tasks, stop>>
    /\ UNCHANGED <<storevars, coolvars, force>>

\* self.active_channels.discard(chat_id)
UnregisterChannel(chat) ==
    /\ active_channels' = active_channels \ {chat}
    /\ UNCHANGED <<running, spawn_task, tasks, stop>>
    /\ UNCHANGED <<storevars, coolvars, force>>

\* start_auto_spawning without its `if self.running: return`.
StartAutoSpawningAlways ==
    /\ \E t \in Tasks :
          /\ tasks[t].pc = "none" /\ \A q \in Tasks : q < t => tasks[q].pc # "none"
          /\ tasks' = [tasks EXCEPT ![t].pc = "ready"]
          /\ spawn_task' = t
    /\ running' = TRUE
    /\ UNCHANGED <<active_channels, stop>>
    /\ UNCHANGED <<storevars, coolvars, force>>

\* start_auto_spawning: `if self.running: return`, else running = True and
\* asyncio.create_task(self._spawn_loop()).
StartAutoSpawning ==
    IF running
    THEN UNCHANGED vars
    ELSE /\ \E t \in Tasks :
              /\ tasks[t].pc = "none" /\ \A q \in Tasks : q < t => tasks[q].pc # "none"
              /\ tasks' = [tasks EXCEPT ![t].pc = "ready"]
              /\ spawn_task' = t
         /\ running' = TRUE
         /\ UNCHANGED <<active_channels, stop>>
         /\ UNCHANGED <<storevars, coolvars, force>>

\* stop_auto_spawning that returns right after cancel(), without the await.
StopCallNoAwait ==
    /\ stop.pc # "await"
    /\ running' = FALSE
    /\ tasks' = IF spawn_task # NoTask /\ Alive(tasks[spawn_task])
                THEN [tasks EXCEPT ![spawn_task].cancel = TRUE]
                ELSE tasks
    /\ stop' = [pc |-> "done", task |-> spawn_task]
    /\ UNCHANGED <<active_channels, spawn_task>>
    /\ UNCHANGED <<storevars, coolvars, force>>

\* stop_auto_spawning up to its await: running = False, spawn_task.cancel(),
\* then `await self.spawn_task`; without a task it returns at once.
StopCall ==
    /\ stop.pc # "await"
    /\ running' = FALSE
    /\ tasks' = IF spawn_task # NoTask /\ Alive(tasks[spawn_task])
                THEN [tasks EXCEPT ![spawn_task].cancel = TRUE]
                ELSE tasks
    /\ stop' = IF spawn_task = NoTask
               THEN [pc |-> "done", task |-> NoTask]
               ELSE [pc |-> "await", task |-> spawn_task]
    /\ UNCHANGED <<active_channels, spawn_task>>
    /\ UNCHANGED <<storevars, coolvars, force>>

\* The awaited task is done: CancelledError is swallowed and stop returns.
StopReturn ==
    /\ stop.pc = "await"
    /\ Terminated(tasks[stop.task])
    /\ stop' = [stop EXCEPT !.pc = "done"]
    /\ UNCHANGED <<running, active_channels, spawn_task, tasks>>
    /\ UNCHANGED <<storevars, coolvars, force>>

\* The loop ends as soon as it finds no channel to spawn in.
LoopIdleExits(t) ==
    /\ Runs(t, {"ready"})
    /\ ~running \/ active_channels = {}
    /\ tasks' = [tasks EXCEPT ![t].pc = "finished"]
    /\ UNCHANGED <<running, active_channels, spawn_task, stop>>
    /\ UNCHANGED <<storevars, coolvars, force>>

\* `while self.running` with nothing to spawn: the loop ends when running is
\* False, and sleeps 5 seconds when no channel is registered.
LoopIdle(t) ==
    /\ Runs(t, {"ready"})
    /\ ~running \/ active_channels = {}
    /\ tasks' = [tasks EXCEPT ![t].pc = IF running THEN "idle" ELSE "finished"]
    /\ UNCHANGED <<running, active_channels, spawn_task, stop>>
    /\ UNCHANGED <<storevars, coolvars, force>>

\* A selection that draws from every channel, registered or not.
LoopCreateAnyChannel(t, chat) ==
    /\ Runs(t, {"ready"})
    /\ running
    /\ tasks' = [tasks EXCEPT ![t] =
                   IF ExistingSpawn(chat, now)
                   THEN [@ EXCEPT !.pc = "sleep", !.chat_id = chat, !.success = "False"]
                   ELSE [@ EXCEPT !.pc = "insert", !.chat_id = chat, !.success = ""]]
    /\ UNCHANGED <<running, active_channels, spawn_task, stop>>
    /\ UNCHANGED <<storevars, coolvars, force>>

\* random.choice over the registered channels and the call of
\* fast_spawn_service.create_spawn, up to the answer of its existence check.
LoopCreate(t, chat) ==
    /\ Runs(t, {"ready"})
    /\ running /\ chat \in active_channels
    /\ tasks' = [tasks EXCEPT ![t] =
                   IF ExistingSpawn(chat, now)
                   THEN [@ EXCEPT !.pc = "sleep", !.chat_id = chat, !.success = "False"]
                   ELSE [@ EXCEPT !.pc = "insert", !.chat_id = chat, !.success = ""]]
    /\ UNCHANGED <<running, active_channels, spawn_task, stop>>
    /\ UNCHANGED <<storevars, coolvars, force>>

\* The INSERT of the loop's create_spawn runs on the store.
LoopInsert(t, r, pl) ==
    /\ Runs(t, {"insert"})
    /\ pl \in Payloads("fast")
    /\ LET id == SpawnId("fast", now, r)
           row == SpawnRow(id, tasks[t].chat_id, pl.species, pl.level, pl.is_shiny,
                           pl.rarity, now, now + Window("fast"))
       IN IF RowsById(id) # {}
          THEN /\ tasks' = [tasks EXCEPT ![t].pc = "sleep", ![t].success = "False"]
               /\ UNCHANGED spawns
          ELSE /\ spawns' = spawns \cup {row}
               /\ tasks' = [tasks EXCEPT ![t].pc = "cache", ![t].row = row]
    /\ UNCHANGED <<running, active_channels, spawn_task, stop>>
    /\ UNCHANGED <<now, pokemon, cache, calls, coolvars, force>>

\* The coroutine resumes after the INSERT, fills the cache, create_spawn
\* returns True and the loop goes to sleep for its interval of 30 to 60 s.
LoopCache(t) ==
    /\ Runs(t, {"cache"})
    /\ cache' = [cache EXCEPT ![tasks[t].chat_id] = CacheEntry(tasks[t].row)]
    /\ tasks' = [tasks EXCEPT ![t].pc = "sleep", ![t].row = NoRow, ![t].success = "True"]
    /\ UNCHANGED <<running, active_channels, spawn_task, stop>>
    /\ UNCHANGED <<now, spawns, pokemon, calls, coolvars, force>>

\* The store is down: create_spawn catches the exception and returns False,
\* the loop sleeps for its interval.
LoopCreateFail(t) ==
    /\ Runs(t, {"insert"})
    /\ tasks' = [tasks EXCEPT ![t].pc = "sleep", ![t].success = "Failed"]
    /\ UNCHANGED <<running, active_channels, spawn_task, stop>>
    /\ UNCHANGED <<storevars, coolvars, force>>

\* An exception ends the iteration and the loop with it.
LoopRaiseTerminates(t) ==
    /\ Runs(t, {"insert"})
    /\ tasks' = [tasks EXCEPT ![t].pc = "finished", ![t].success = "Raised"]
    /\ UNCHANGED <<running, active_channels, spawn_task, stop>>
    /\ UNCHANGED <<storevars, coolvars, force>>

\* An exception comes out of the awaited call: `except Exception` logs it and
\* the loop sleeps 10 seconds.
LoopRaise(t) ==
    /\ Runs(t, {"insert"})
    /\ tasks' = [tasks EXCEPT ![t].pc = "backoff", ![t].success = "Raised"]
    /\ UNCHANGED <<running, active_channels, spawn_task, stop>>
    /\ UNCHANGED <<storevars, coolvars, force>>

\* asyncio.sleep is over: back to `while self.running`.
LoopWake(t) ==
    /\ Runs(t, {"idle", "sleep", "backoff"})
    /\ tasks' = [tasks EXCEPT ![t].pc = "ready"]
    /\ UNCHANGED <<running, active_channels, spawn_task, stop>>
    /\ UNCHANGED <<storevars, coolvars, force>>

\* The pending cancellation is delivered at the await the task is suspended
\* in: CancelledError is no Exception, no handler of the loop or of
\* create_spawn catches it, and the task ends.
LoopCancelled(t) ==
    /\ tasks[t].cancel /\ Alive(tasks[t])
    /\ tasks' = [tasks EXCEPT ![t].pc = "cancelled", ![t].row = NoRow]
    /\ UNCHANGED <<running, active_channels, spawn_task, stop>>
    /\ UNCHANGED <<storevars, coolvars, force>>

(* ---------------------------------------------------------------------- *)
(* FastSchedulerService.force_spawn_all_channels                            *)
(* ---------------------------------------------------------------------- *)
\* The channels that register with the scheduler in this part.
ForceChannels == {"g1", "g2"}

\* The place of a channel id in the hash table of the set: the ids are taken
\* such that g1 comes before g2; with two keys the table is never resized.
Slot(c) == IF c = "g1" THEN 1 ELSE 2

IdleForce == [pc |-> "idle", used |-> 0, pos |-> 0, start |-> {}, tried |-> {},
              chat |-> "", count |-> 0]

\* The channel the iterator yields next: the first one of the set as it is
\* now that lies behind the iterator's place.
NextInTable(pos) ==
    {c \in active_channels :
        Slot(c) > pos /\ \A d \in active_channels : Slot(d) > pos => Slot(c) <= Slot(d)}

\* The call starts: spawned_count = 0, the iterator is made and asked for
\* its first channel at once; create_spawn is called for it, up to the answer
\* of its existence check.  With no channel registered the call returns 0.
ForceStart ==
    /\ force.pc \in {"idle", "done", "raised"}
    /\ IF active_channels = {}
       THEN force' = [IdleForce EXCEPT !.pc = "done"]
       ELSE \E c \in NextInTable(0) :
              force' = [IdleForce EXCEPT
                          !.pc = IF ExistingSpawn(c, now) THEN "next" ELSE "insert",
                          !.used = Cardinality(active_channels),
                          !.start = active_channels,
                          !.pos = Slot(c), !.chat = c, !.tried = {c}]
    /\ UNCHANGED <<storevars, schedvars, coolvars>>

\* next() on the iterator finds the set at another size than it started
\* with: RuntimeError("Set changed size during iteration"), raised by the
\* `for` statement, outside the try of its body, so it leaves the call.
ForceRaise ==
    /\ force.pc = "next"
    /\ Cardinality(active_channels) # force.used
    /\ force' = [force EXCEPT !.pc = "raised", !.chat = ""]
    /\ UNCHANGED <<storevars, schedvars, coolvars>>

\* create_spawn has returned and next() yields a further channel:
\* spawn_service.create_spawn is called for it, up to the answer of its
\* existence check, None with an Active spawn there.
ForceNext(c) ==
    /\ force.pc = "next"
    /\ Cardinality(active_channels) = force.used
    /\ c \in NextInTable(force.pos)
    /\ force' = [force EXCEPT !.pc = IF ExistingSpawn(c, now) THEN "next" ELSE "insert",
                              !.pos = Slot(c), !.chat = c,
                              !.tried = force.tried \cup {c}]
    /\ UNCHANGED <<storevars, schedvars, coolvars>>

\* The iterator is exhausted: the call logs and returns spawned_count.
ForceDone ==
    /\ force.pc = "next"
    /\ Cardinality(active_channels) = force.used
    /\ NextInTable(force.pos) = {}
    /\ force' = [force EXCEPT !.pc = "done", !.chat = ""]
    /\ UNCHANGED <<storevars, schedvars, coolvars>>

\* The INSERT of SpawnService.create_spawn: the Spawn comes back and is
\* counted; a spawn_id that exists raises inside create_spawn, which
\* returns None.
ForceInsert(r, pl) ==
    /\ force.pc = "insert"
    /\ pl \in Payloads("slow")
    /\ LET id == SpawnId("slow", now, r)
           row == SpawnRow(id, force.chat, pl.species, pl.level, pl.is_shiny,
                           pl.rarity, now, now + Window("slow"))
       IN IF RowsById(id) # {}
          THEN /\ force' = [force EXCEPT !.pc = "next"]
               /\ UNCHANGED spawns
          ELSE /\ spawns' = spawns \cup {row}
               /\ force' = [force EXCEPT !.pc = "next", !.count = force.count + 1]
    /\ UNCHANGED <<now, pokemon, cache, calls, schedvars, coolvars>>

\* The catalog has no entry or the store fails: create_spawn returns None.
ForceCreateNone ==
    /\ force.pc = "insert"
    /\ force' = [force EXCEPT !.pc = "next"]
    /\ UNCHANGED <<storevars, schedvars, coolvars>>

(* ---------------------------------------------------------------------- *)
(* spawn_handler: the manual-spawn cooldown                                 *)
(* ---------------------------------------------------------------------- *)
CooldownUsers == {"userA", "userB", "admin"}

\* settings.ADMIN_IDS
AdminIds == {"admin"}

is_admin(user) == user \in AdminIds

\* The elapsed times between two events the clock is advanced by.
Elapses == {10, 20}

NoRecord == 0 - 1

NoAnswer == [user |-> NoUser, ok |-> FALSE]

NoCommand == [cmd |-> "", chat |-> "", odd |-> FALSE]

\* The update object of command cmd sent in channel chat.
Command(cmd, chat) == [cmd |-> cmd, chat |-> chat, odd |-> ~handled.odd]

\* `cooldown_key in user_cooldowns and now - user_cooldowns[cooldown_key] < 30`
OnCooldown(user, t) ==
    user_cooldowns[user] # NoRecord /\ t - user_cooldowns[user] < CooldownSeconds

\* A cooldown check that records the trigger time of a refused call too.
SpawnCooldownAlwaysRecords(user, chat) ==
    /\ active_channels' = active_channels \cup {chat}
    /\ handled' = Command("spawn", chat)
    /\ answer' = [user |-> user, ok |-> is_admin(user) \/ ~OnCooldown(user, clock)]
    /\ user_cooldowns' = IF is_admin(user) THEN user_cooldowns
                         ELSE [user_cooldowns EXCEPT ![user] = clock]
    /\ UNCHANGED <<clock, running, spawn_task, tasks, stop, storevars, force>>

\* spawn_handler down to its first await: the channel is registered with the
\* scheduler, then the cooldown check, which admins skip.
SpawnCooldown(user, chat) ==
    /\ active_channels' = active_channels \cup {chat}
    /\ handled' = Command("spawn", chat)
    /\ IF is_admin(user)
       THEN /\ answer' = [user |-> user, ok |-> TRUE]
            /\ UNCHANGED user_cooldowns
       ELSE IF OnCooldown(user, clock)
            THEN /\ answer' = [user |-> user, ok |-> FALSE]
                 /\ UNCHANGED user_cooldowns
            ELSE /\ user_cooldowns' = [user_cooldowns EXCEPT ![user] = clock]
                 /\ answer' = [user |-> user, ok |-> TRUE]
    /\ UNCHANGED <<clock, running, spawn_task, tasks, stop, storevars, force>>

\* time.time() moves on.
Elapse(d) ==
    /\ clock + d <= MaxClock
    /\ clock' = clock + d
    /\ UNCHANGED <<user_cooldowns, answer, handled, schedvars, storevars, force>>

\* catch_handler down to its first await, the get_active_spawn call: it looks
\* for the channel's spawn and makes no call to the scheduler.
CatchCommand(chat) ==
    /\ handled' = Command("catch", chat)
    /\ UNCHANGED <<user_cooldowns, clock, answer, schedvars, storevars, force>>

Init ==
    /\ now = 0
    /\ spawns = {}
    /\ pokemon = {}
    /\ cache = [c \in Chats |-> NoEntry]
    /\ calls = [p \in Calls |-> IdleCall]
    /\ running = FALSE
    /\ active_channels = {}
    /\ spawn_task = NoTask
    /\ tasks = [t \in Tasks |-> NewTask]
    /\ stop = IdleStop
    /\ handled = NoCommand
    /\ force = IdleForce
    /\ user_cooldowns = [u \in CooldownUsers |-> NoRecord]
    /\ clock = 0
    /\ answer = NoAnswer

\* Ids a caller can hold: an id a create call has produced, or one no spawn has.
KnownIds == {calls[q].spawn_id : q \in {c \in Calls : calls[c].op = "create"}} \ {NoId}

Next ==
    \/ Tick
    \/ \E p \in Calls, svc \in Services, chat \in Chats : CreateCheck(p, svc, chat)
    \/ \E p \in Calls, r \in 1..MaxRand, pl \in Payloads("fast") \cup Payloads("slow") :
          CreateInsert(p, r, pl)
    \/ \E p \in Calls : CreateCatalogFail(p)
    \/ \E p \in Calls : CreateFail(p)
    \/ \E p \in Calls : CreateCache(p)
    \/ \E p \in Calls, chat \in Chats : GetCheck(p, chat)
    \/ \E p \in Calls : GetQuery(p)
    \/ \E p \in Calls : GetFill(p)
    \/ \E p \in Calls, svc \in Services, id \in KnownIds \cup {UnknownId}, user \in Users :
          CatchRead(p, svc, id, user)
    \/ \E p \in Calls : CatchMiss(p)
    \/ \E p \in Calls : CatchUpdate(p)
    \/ \E p \in Calls : CatchInsert(p)
    \/ \E p \in Calls : CatchFail(p)
    \/ \E p \in Calls : CatchCommit(p)
    \/ \E clear \in BOOLEAN : Cleanup(clear)

Spec == Init /\ [][Next]_vars

\* Operations run strictly one after the other: a call is issued, and a sweep
\* runs, only when no call is in flight.
InFlight == \E q \in Calls : calls[q].pc \notin {"idle", "done"}

NextSeq ==
    \/ Tick
    \/ \E p \in Calls, svc \in Services, chat \in Chats : ~InFlight /\ CreateCheck(p, svc, chat)
    \/ \E p \in Calls, r \in 1..MaxRand, pl \in Payloads("fast") \cup Payloads("slow") :
          CreateInsert(p, r, pl)
    \/ \E p \in Calls : CreateCatalogFail(p)
    \/ \E p \in Calls : CreateFail(p)
    \/ \E p \in Calls : CreateCache(p)
    \/ \E p \in Calls, chat \in Chats : ~InFlight /\ GetCheck(p, chat)
    \/ \E p \in Calls : GetQuery(p)
    \/ \E p \in Calls : GetFill(p)
    \/ \E p \in Calls, svc \in Services, id \in KnownIds \cup {UnknownId}, user \in Users :
          ~InFlight /\ CatchRead(p, svc, id, user)
    \/ \E p \in Calls : CatchMiss(p)
    \/ \E p \in Calls : CatchUpdate(p)
    \/ \E p \in Calls : CatchInsert(p)
    \/ \E p \in Calls : CatchFail(p)
    \/ \E p \in Calls : CatchCommit(p)
    \/ \E clear \in BOOLEAN : ~InFlight /\ Cleanup(clear)

SpecSeq == Init /\ [][NextSeq]_vars

\* Re-reads: the channel is written to (created in, captured from, swept)
\* only until the first get_active_spawn is issued; from then on
\* get_active_spawn calls follow one another while time goes by.
NoGetYet == \A q \in Calls : calls[q].op # "get"

NextReread ==
    \/ Tick
    \/ \E p \in Calls, svc \in Services, chat \in Chats : NoGetYet /\ CreateCheck(p, svc, chat)
    \/ \E p \in Calls, r \in 1..MaxRand, pl \in Payloads("fast") \cup Payloads("slow") :
          CreateInsert(p, r, pl)
    \/ \E p \in Calls : CreateCatalogFail(p)
    \/ \E p \in Calls : CreateFail(p)
    \/ \E p \in Calls : CreateCache(p)
    \/ \E p \in Calls, chat \in Chats : ~InFlight /\ GetCheck(p, chat)
    \/ \E p \in Calls : GetQuery(p)
    \/ \E p \in Calls : GetFill(p)
    \/ \E p \in Calls, svc \in Services, id \in KnownIds \cup {UnknownId}, user \in Users :
          NoGetYet /\ CatchRead(p, svc, id, user)
    \/ \E p \in Calls : CatchMiss(p)
    \/ \E p \in Calls : CatchUpdate(p)
    \/ \E p \in Calls : CatchInsert(p)
    \/ \E p \in Calls : CatchFail(p)
    \/ \E p \in Calls : CatchCommit(p)
    \/ \E clear \in BOOLEAN : NoGetYet /\ Cleanup(clear)

SpecReread == Init /\ [][NextReread]_vars

\* The scheduler with its spawn loops, on the store and the cache of the fast
\* service.  The sleeps of the loop last seconds, a spawn lasts minutes: the
\* loops are followed within one tick of the clock.
NextSched ==
    \/ \E chat \in Chats : RegisterChannel(chat)
    \/ \E chat \in Chats : UnregisterChannel(chat)
    \/ StartAutoSpawning
    \/ StopCall
    \/ StopReturn
    \/ \E t \in Tasks : LoopIdle(t)
    \/ \E t \in Tasks, chat \in Chats : LoopCreate(t, chat)
    \/ \E t \in Tasks, r \in 1..MaxRand, pl \in Payloads("fast") : LoopInsert(t, r, pl)
    \/ \E t \in Tasks : LoopCache(t)
    \/ \E t \in Tasks : LoopCreateFail(t)
    \/ \E t \in Tasks : LoopRaise(t)
    \/ \E t \in Tasks : LoopWake(t)
    \/ \E t \in Tasks : LoopCancelled(t)

SpecSched == Init /\ [][NextSched]_vars

\* The event loop runs every task that can run: a sleep ends, a statement is
\* answered, a cancellation is delivered.  That a failure happens is never
\* forced.
LoopStep(t) ==
    \/ LoopIdle(t)
    \/ \E chat \in Chats : LoopCreate(t, chat)
    \/ \E r \in 1..MaxRand, pl \in Payloads("fast") : LoopInsert(t, r, pl)
    \/ LoopCache(t)
    \/ LoopWake(t)
    \/ LoopCancelled(t)

SpecSchedFair == SpecSched /\ \A t \in Tasks : WF_vars(LoopStep(t))

\* The cooldown check applied to users at times the clock is advanced to.
NextCool ==
    \/ \E user \in CooldownUsers, chat \in Chats : SpawnCooldown(user, chat)
    \/ \E d \in Elapses : Elapse(d)

SpecCool == Init /\ [][NextCool]_vars

\* The commands of a channel and the scheduler's registration calls.
NextHandlers ==
    \/ \E user \in CooldownUsers, chat \in Chats : SpawnCooldown(user, chat)
    \/ \E chat \in Chats : CatchCommand(chat)
    \/ \E chat \in Chats : RegisterChannel(chat)
    \/ \E chat \in Chats : UnregisterChannel(chat)
    \/ \E d \in Elapses : Elapse(d)

SpecHandlers == Init /\ [][NextHandlers]_vars

\* SpawnService.create_spawn with its catalog lookups taken one by one.
NextCatalog ==
    \/ Tick
    \/ \E p \in Calls, chat \in Chats : CreateCheck(p, "slow", chat)
    \/ \E p \in Calls, data \in LookupResults : CreateLookup(p, data)
    \/ \E p \in Calls, data \in LookupResults : CreateFallback(p, data)
    \/ \E p \in Calls, r \in 1..MaxRand, pl \in Payloads("slow") : CreateInsertLooked(p, r, pl)
    \/ Cleanup(FALSE)

SpecCatalog == Init /\ [][NextCatalog]_vars

\* force_spawn_all_channels with the registration calls that can run while
\* it is suspended in create_spawn.
NextForce ==
    \/ Tick
    \/ \E chat \in ForceChannels : RegisterChannel(chat)
    \/ \E chat \in ForceChannels : UnregisterChannel(chat)
    \/ ForceStart
    \/ ForceRaise
    \/ \E c \in ForceChannels : ForceNext(c)
    \/ ForceDone
    \/ \E r \in 1..MaxRand, pl \in Payloads("slow") : ForceInsert(r, pl)
    \/ ForceCreateNone

SpecForce == Init /\ [][NextForce]_vars

TypeOK ==
    /\ now \in 0..MaxTime
    /\ \A p \in Calls : calls[p].op \in {"none", "create", "get", "catch"}

(* ---------------------------------------------------------------------- *)
(* Properties                                                               *)
(* ---------------------------------------------------------------------- *)
CapturedCalls(id) ==
    {p \in Calls : calls[p].op = "catch" /\ calls[p].ret = "Captured" /\ calls[p].spawn_id = id}

CatchIds == {calls[p].spawn_id : p \in {q \in Calls : calls[q].op = "catch"}}

\* The call p returns in this step.
Returns(p) == calls[p].pc # "done" /\ calls'[p].pc = "done"

\* C1: of the catch_spawn calls on one spawn, at most one returns Captured,
\* however their steps interleave.
C1_AtMostOneCaptured == \A id \in CatchIds : Cardinality(CapturedCalls(id)) <= 1

\* C2: at most one owned-creature record is ever created from one spawn.
C2_AtMostOneCreature ==
    \A id \in CatchIds :
        Cardinality({k \in pokemon : calls[k.pokemon_id].spawn_id = id}) <= 1

\* C3: in every reachable state every channel has at most one Active spawn
\* (uncaught and not yet expired).
C3_OneActivePerChannel == \A c \in Chats : Cardinality(ActiveRows(c, now)) <= 1

\* C4: whenever a spawn becomes marked captured in the committed store, the
\* clock is still before its expires_at at that moment.
C4_CaptureBeforeExpiry ==
    [][\A r \in spawns' : (r.is_caught /\ r \notin spawns) => now' < r.expires_at]_vars

\* C5: a catch_spawn call issued after the spawn's expires_at never returns
\* Captured and never creates an owned-creature record: every call that
\* returns Captured, and every step that adds a creature record, belongs to a
\* call issued no later than the expires_at of the spawn it read.
C5_IssuedAfterExpiryNeverCaptures ==
    [][\A p \in Calls :
          ((Returns(p) /\ calls'[p].op = "catch" /\ calls'[p].ret = "Captured")
             \/ (\E k \in pokemon' \ pokemon : k.pokemon_id = p))
          => calls[p].t0 <= calls[p].row.expires_at]_vars

\* C5 witness: a catch call on a spawn whose row is still stored, uncaught and
\* past its expires_at has returned "disappeared" / "fled".
C5_Witness ==
    \E p \in Calls :
        /\ calls[p].op = "catch" /\ calls[p].pc = "done"
        /\ calls[p].ret \in {"Disappeared", "Fled"}
        /\ \E r \in RowsById(calls[p].spawn_id) : ~r.is_caught /\ r.expires_at < now

\* C6: once a spawn is marked captured, its row (is_caught, caught_by,
\* caught_at and everything else) is never changed or removed again.
C6_CapturedIsFinal == [][\A r \in spawns : r.is_caught => r \in spawns']_vars

\* C7 (as claimed): after a capture attempt has failed its roll the spawn is
\* consumed, it is no longer Active.
C7_FailedRollConsumes ==
    \A p \in Calls :
        (calls[p].op = "catch" /\ calls[p].ret = "Escaped")
        => \A r \in RowsById(calls[p].spawn_id) : ~IsActive(r, now)

\* C7 (amended): a capture attempt that fails its roll returns the escape
\* outcome and writes nothing: the spawn rows, the creature records and the
\* cache are exactly as before, so the spawn stays open to further attempts.
C7_FailedRollLeavesSpawn ==
    [][\A p \in Calls :
          (Returns(p) /\ calls'[p].op = "catch" /\ calls'[p].ret = "Escaped")
          => /\ spawns' = spawns /\ pokemon' = pokemon /\ cache' = cache
             /\ calls[p].row \in spawns => calls[p].row \in spawns']_vars

\* C7 witness: a call has returned the escape outcome and the spawn it was
\* about is still Active in the store.
C7_Witness ==
    \E p \in Calls :
        /\ calls[p].op = "catch" /\ calls[p].ret = "Escaped"
        /\ \E r \in RowsById(calls[p].spawn_id) : IsActive(r, now)

\* C8: a catch_spawn call returns Captured exactly when its commit leaves the
\* spawn marked caught by the caller together with one new creature record
\* of the caller carrying the spawn's species, level, shiny flag and rarity;
\* in every step a spawn becomes marked caught iff a creature record is added.
C8_CapturedIffCommitted ==
    [][/\ \A p \in Calls :
            (Returns(p) /\ calls'[p].op = "catch")
            => ((calls'[p].ret = "Captured")
                <=> \E r \in spawns' :
                       /\ r.spawn_id = calls'[p].spawn_id
                       /\ r.is_caught /\ r.caught_by = calls[p].user_id
                       /\ pokemon' \ pokemon = {PokemonRow(p, calls[p].user_id, r)})
       /\ (\E r \in spawns' : r.is_caught /\ r \notin spawns) <=> (pokemon' # pokemon)]_vars

\* C9: with calls issued one after the other, a create_spawn on a channel
\* without an Active spawn goes on to its insert, the insert (unless it
\* raises) persists exactly one Active spawn for the channel and only such a
\* call returns created=true; a create_spawn issued while the channel has an
\* Active spawn returns created=false at once, store and cache unchanged.
C9_SequentialCreate ==
    [][\A p \in Calls :
          /\ (calls[p].pc = "idle" /\ calls'[p].op = "create")
             => IF ActiveRows(calls'[p].chat_id, now) = {}
                THEN calls'[p].pc = "insert"
                ELSE /\ calls'[p].pc = "done" /\ calls'[p].ret = "False"
                     /\ spawns' = spawns /\ cache' = cache
          /\ (calls[p].op = "create" /\ calls[p].pc = "insert" /\ calls'[p] # calls[p]
                /\ spawns' # spawns)
             => /\ Cardinality(spawns' \ spawns) = 1 /\ spawns \subseteq spawns'
                /\ {r \in spawns' : r.chat_id = calls[p].chat_id /\ IsActive(r, now')}
                     = spawns' \ spawns
                /\ calls'[p].spawn_id \in {r.spawn_id : r \in spawns' \ spawns}
                /\ calls'[p].pc = "cache" \/ calls'[p].ret = "True"
          /\ (Returns(p) /\ calls'[p].op = "create" /\ calls'[p].ret = "True")
             => /\ calls'[p].spawn_id # NoId
                /\ calls[p].pc = "cache" \/ spawns' # spawns]_vars

\* C9 witness: a create_spawn has returned created=true, its spawn is still
\* Active, and a create_spawn issued after it has returned created=false.
C9_Witness ==
    \E p, q \in Calls :
        /\ p < q
        /\ calls[p].op = "create" /\ calls[p].ret = "True"
        /\ \E r \in RowsById(calls[p].spawn_id) : IsActive(r, now)
        /\ ActiveRows(calls[p].chat_id, now) = RowsById(calls[p].spawn_id)
        /\ calls[q].op = "create" /\ calls[q].ret = "False"
        /\ calls[q].chat_id = calls[p].chat_id

\* C10: whenever get_active_spawn returns a spawn, that spawn is stored and
\* its expires_at has not passed.
C10_GetNeverReturnsExpired ==
    [][\A p \in Calls :
          (Returns(p) /\ calls'[p].op = "get" /\ calls'[p].ret = "Some")
          => \E r \in spawns : r.spawn_id = calls'[p].spawn_id /\ r.expires_at > now]_vars

\* C11: once a catch_spawn on spawn S has returned Captured, no
\* get_active_spawn hands S out as the Active spawn of its channel any more,
\* whether that call was issued later or was in flight during the capture.
C11_NoCapturedSpawnReturned ==
    [][\A p \in Calls :
          (Returns(p) /\ calls'[p].op = "get" /\ calls'[p].ret = "Some")
          => CapturedCalls(calls'[p].spawn_id) = {}]_vars

\* C12: a create_spawn whose INSERT fails returns failure with the cache and
\* the store exactly as they were, and every cache entry names a spawn that a
\* create_spawn has committed to the store.
C12_CacheOnlyCommitted ==
    [][/\ \A p \in Calls :
            (calls[p].op = "create" /\ calls[p].pc = "insert" /\ spawns' = spawns
               /\ calls'[p] # calls[p])
            => /\ cache' = cache
               /\ calls'[p].pc = "done" /\ calls'[p].ret = "False"
       /\ \A c \in Chats : cache'[c] # NoEntry => cache'[c].spawn_id \in KnownIds']_vars

\* C12 witness: a create_spawn on a channel without any spawn has come back
\* with failure (its insert failed); store and cache are still empty.
C12_Witness ==
    \E p \in Calls :
        /\ calls[p].op = "create" /\ calls[p].pc = "done" /\ calls[p].ret = "False"
        /\ now = 0 /\ spawns = {}
        /\ \A c \in Chats : cache[c] = NoEntry

\* The get_active_spawn calls on channel c that have returned.
GetsOn(c) == {p \in Calls : calls[p].op = "get" /\ calls[p].pc = "done" /\ calls[p].chat_id = c}

C14_StopWaitsForLoop ==
    [][\A t \in Tasks :
          /\ (stop'.pc = "done" /\ stop'.task = t) => Terminated(tasks'[t])
          /\ Terminated(tasks[t]) => tasks'[t] = tasks[t]]_vars

\* C14 witness: stop_auto_spawning has returned after cancelling a loop that
\* was suspended inside create_spawn, between the INSERT and the cache write:
\* the row is stored and the cache was never filled.
C14_Witness ==
    /\ stop.pc = "done" /\ stop.task # NoTask
    /\ tasks[stop.task].pc = "cancelled"
    /\ \E r \in spawns : r.chat_id = "g1" /\ cache["g1"] = NoEntry

\* The last create_spawn attempt of loop t failed: the store was down and
\* create_spawn returned False, or an exception reached the loop.
FailedIteration(k) == k.success \in {"Failed", "Raised"}

\* C15: a failing iteration never ends the spawn loop: a loop whose last
\* iteration failed has not run to its end, it is asleep (its interval, or
\* the 10 s backoff), back in a further iteration, or was cancelled by
\* stop_auto_spawning; and from its sleep it comes back to its
\* `while self.running` test unless it is cancelled.  This holds after every
\* failure, however many follow one another.
C15_FailureNeverEndsLoop ==
    \A t \in Tasks :
        /\ [](FailedIteration(tasks[t]) => tasks[t].pc # "finished")
        /\ [](~tasks[t].cancel => tasks[t].pc # "cancelled")
        /\ (FailedIteration(tasks[t]) /\ tasks[t].pc \in {"sleep", "backoff"})
             ~> (tasks[t].pc = "ready" \/ tasks[t].cancel)

\* C15 witness: after a failed iteration the loop is back at its test, with
\* the scheduler still Running and no cancellation pending.
C15_Witness ==
    \E t \in Tasks :
        /\ running /\ spawn_task = t
        /\ tasks[t].pc = "ready" /\ ~tasks[t].cancel
        /\ FailedIteration(tasks[t])

\* The scheduler is Running and g1 is the one registered channel.
Eligible == running /\ active_channels = {"g1"}

\* A loop is at its `while self.running` test.
AtLoopTest == \E t \in Tasks : tasks[t].pc = "ready"

\* A loop is inside create_spawn("g1"), or asleep after that call returned.
CreateCalled ==
    \E t \in Tasks : tasks[t].pc \in {"insert", "cache", "sleep", "backoff"} /\ tasks[t].chat_id = "g1"

\* C16: if from some moment on the scheduler stays Running with g1 as its one
\* registered channel, create_spawn(g1) is called again and again: the loop
\* is at its test infinitely often and in or past a create_spawn(g1) call
\* infinitely often.
C16_EventuallySpawnsRepeatedly ==
    <>[]Eligible => ([]<>AtLoopTest /\ []<>CreateCalled)

\* C16 witness: the scheduler is Running with g1 registered, and the running
\* loop has called create_spawn(g1) and is asleep after the call returned.
C16_Witness ==
    /\ Eligible
    /\ \E t \in Tasks : /\ spawn_task = t /\ ~tasks[t].cancel
                        /\ tasks[t].pc = "sleep" /\ tasks[t].chat_id = "g1"
                        /\ tasks[t].success \in {"True", "False"}

\* This step is a cooldown check made for user u.
CheckStep(u) ==
    /\ clock' = clock
    /\ answer'.user = u
    /\ answer' # answer \/ user_cooldowns' # user_cooldowns

\* The user has no record, or the record is at least the window old
\* (`now - last < 30` is false): the window has elapsed.
Fresh(u) ==
    user_cooldowns[u] = NoRecord \/ clock - user_cooldowns[u] >= CooldownSeconds

\* C17 (as claimed): for every user the check returns true and records now
\* when the user has no record or the window has elapsed since the record,
\* and otherwise returns false and leaves the cooldown map as it is.
C17_CooldownPerUser ==
    [][\A u \in CooldownUsers :
          CheckStep(u)
          => IF Fresh(u)
             THEN answer'.ok /\ user_cooldowns' = [user_cooldowns EXCEPT ![u] = clock]
             ELSE ~answer'.ok /\ user_cooldowns' = user_cooldowns]_vars

\* C17 (amended): for a user who is no admin the check returns true and
\* records now when the user has no record or the record is at least 30 s
\* old, and otherwise returns false and leaves the cooldown map as it is; for
\* an admin the check is skipped: the answer is always true and nothing is
\* recorded.  The records of other users are never touched.
C17_CooldownNonAdmin ==
    [][\A u \in CooldownUsers :
          CheckStep(u)
          => /\ \A v \in CooldownUsers \ {u} : user_cooldowns'[v] = user_cooldowns[v]
             /\ IF is_admin(u)
                THEN answer'.ok /\ user_cooldowns' = user_cooldowns
                ELSE IF Fresh(u)
                     THEN answer'.ok /\ user_cooldowns'[u] = clock
                     ELSE ~answer'.ok /\ user_cooldowns' = user_cooldowns]_vars

\* C17 witness: the check has just let userA through and recorded the
\* current time, 30 s after the start, while an older record of userB is
\* still in the map.
C17_Witness ==
    /\ answer = [user |-> "userA", ok |-> TRUE]
    /\ user_cooldowns["userA"] = clock /\ clock = CooldownSeconds
    /\ user_cooldowns["userB"] \notin {NoRecord, clock}

\* The refusals catch_spawn can answer at its read, by whether a row of the
\* spawn is stored: "already caught" or (fast, past expires_at) "disappeared"
\* while the row is there, "not found" / "disappeared" once it is gone.
Refusals(id) ==
    IF RowsById(id) # {} THEN {"AlreadyCaught", "Disappeared"}
    ELSE {"NotFound", "Disappeared"}

\* C18: a catch_spawn on S that starts after some catch_spawn on S has
\* returned Captured is refused at its read (already caught, or gone), and its
\* step changes neither the spawn rows nor the owned-creature records.
C18_LateCatchRefused ==
    [][\A p \in Calls :
          (calls[p].pc = "idle" /\ calls'[p].op = "catch"
             /\ CapturedCalls(calls'[p].spawn_id) # {})
          => /\ calls'[p].pc = "done"
             /\ calls'[p].ret \in Refusals(calls'[p].spawn_id)
             /\ spawns' = spawns /\ pokemon' = pokemon]_vars

\* C18 witness: a catch_spawn on S has returned Captured and a catch_spawn
\* issued after it on the same spawn has come back "already caught".
C18_Witness ==
    \E p, q \in Calls :
        /\ p < q
        /\ calls[p].op = "catch" /\ calls[p].ret = "Captured"
        /\ calls[q].op = "catch" /\ calls[q].ret = "AlreadyCaught"
        /\ calls[q].spawn_id = calls[p].spawn_id
        /\ \E r \in RowsById(calls[p].spawn_id) : r.is_caught

\* Call p makes a step in which a store operation of it fails: a capture ends
\* with the error answer, or a create_spawn leaves its INSERT without a row.
FailsAt(p) ==
    \/ calls[p].op = "catch" /\ Returns(p) /\ calls'[p].ret = "Error"
    \/ calls[p].op = "create" /\ calls[p].pc = "insert" /\ calls'[p] # calls[p]
         /\ spawns' = spawns

\* C19: a create_spawn or catch_spawn whose store operation fails returns a
\* failure, is over for good (no retry), and has left the tables as they were:
\* the failing step writes nothing, and no step of a capture before its commit
\* writes the spawn row or a creature record, so a failed capture leaves
\* neither half of its transaction behind.
C19_FailureLeavesStore ==
    [][\A p \in Calls :
          /\ FailsAt(p)
               => /\ calls'[p].pc = "done"
                  /\ calls'[p].ret = IF calls[p].op = "catch" THEN "Error" ELSE "False"
                  /\ spawns' = spawns /\ pokemon' = pokemon
          /\ (calls[p].op = "catch" /\ calls[p].pc \in {"roll", "insert"}
                /\ calls'[p] # calls[p])
               => spawns' = spawns /\ pokemon' = pokemon
          /\ (calls[p].pc = "done" /\ calls[p].ret \in {"Error", "False"})
               => calls'[p] = calls[p]]_vars

\* C19 witness: a capture that got past its roll has returned the error
\* answer: its spawn is stored uncaught and no creature record exists; and
\* the first create_spawn, issued on the empty table, has returned failure.
C19_Witness ==
    /\ \E p \in Calls :
          /\ calls[p].op = "catch" /\ calls[p].ret = "Error"
          /\ \E r \in RowsById(calls[p].spawn_id) : ~r.is_caught
    /\ pokemon = {}
    /\ \E q \in Calls :
          /\ calls[q].op = "create" /\ calls[q].ret = "False"
          /\ \A k \in Calls : k < q => calls[k].op # "create"

\* What the read of catch_spawn answers for id at time t: the refusal it
\* returns, or "" when the attempt goes on to the roll.
CatchAnswers(svc, id, t) ==
    IF CatchSelect(svc, id, t) = {}
    THEN {IF svc = "fast" THEN "Disappeared" ELSE "NotFound"}
    ELSE {CatchReject(svc, r, t) : r \in CatchSelect(svc, id, t)}

\* Call p is issued as a catch_spawn in this step and makes its read.
CatchReads(p) == calls[p].pc = "idle" /\ calls'[p].op = "catch"

\* The read of catch_spawn answers as CatchAnswers says of one of the services
\* (a returned call no longer tells which service it went through).
CatchReadAnswers ==
    [][\A p \in Calls :
          CatchReads(p) =>
              \E svc \in Services :
                  calls'[p].ret \in CatchAnswers(svc, calls'[p].spawn_id, now)]_vars

\* C20: catch_spawn tells the refusals apart by the spawn's stored state: a
\* stored spawn that is captured is answered "already caught", and an uncaught
\* spawn past its expires_at is answered with a refusal that the same service
\* does not also give for an id that was never created.
C20_OutcomesDistinguished ==
    [][\A p \in Calls :
          CatchReads(p) =>
              \A r \in RowsById(calls'[p].spawn_id) :
                  /\ r.is_caught => calls'[p].ret = "AlreadyCaught"
                  /\ (~r.is_caught /\ r.expires_at < now)
                       => /\ calls'[p].pc = "done"
                          /\ \E svc \in Services :
                                /\ calls'[p].ret
                                     \in CatchAnswers(svc, calls'[p].spawn_id, now)
                                /\ calls'[p].ret
                                     \notin CatchAnswers(svc, UnknownId, now)]_vars

\* The handler of command cmd is entered for channel c in this step.
Handles(cmd, c) == handled' # handled /\ handled'.cmd = cmd /\ handled'.chat = c

\* C21: once a manual spawn command or a catch command has been handled in
\* channel c, c is registered with the scheduler, and a registered channel
\* leaves the set only by unregister_channel, a step that touches nothing
\* but the set.
C21_CommandRegistersChannel ==
    [][\A c \in Chats :
          /\ (Handles("spawn", c) \/ Handles("catch", c)) => c \in active_channels'
          /\ (c \in active_channels /\ c \notin active_channels')
               => UNCHANGED <<running, spawn_task, tasks, stop, storevars, coolvars>>]_vars

\* The part of C21 the code keeps: the spawn command registers its channel,
\* and only unregister_channel takes a channel out of the set.
SpawnCommandRegistersChannel ==
    [][\A c \in Chats :
          /\ Handles("spawn", c) => c \in active_channels'
          /\ (c \in active_channels /\ c \notin active_channels')
               => UNCHANGED <<running, spawn_task, tasks, stop, storevars, coolvars>>]_vars

\* The row carries a full payload, as the generation of a service makes it.
HasPayload(r) ==
    /\ r.species \in SpeciesNames
    /\ r.level \in Levels
    /\ r.rarity \in FastRarities \cup {"legendary", "rare"}

\* C22: create_spawn never stores a spawn without its payload: a first
\* catalog lookup that finds nothing leads to the fallback lookup, and when
\* that finds nothing either the call returns failure and no row is written.
C22_NoSpawnWithoutPayload ==
    [][/\ \A r \in spawns' : HasPayload(r)
       /\ \A p \in Calls :
            /\ (calls[p].pc = "insert" /\ calls[p].row = NoRow /\ calls'[p] # calls[p]
                  /\ calls'[p].row = NoRow)
                 => calls'[p].pc = "fallback" /\ spawns' = spawns
            /\ (calls[p].pc = "fallback" /\ calls'[p] # calls[p])
                 => /\ spawns' = spawns
                    /\ \/ calls'[p].pc = "done" /\ calls'[p].ret = "False"
                       \/ calls'[p].pc = "insert"
                            /\ calls'[p].row.species \in SpeciesNames]_vars

\* C22 witness: the first create_spawn, on the empty table, has returned
\* failure after both lookups found nothing; a later one is at its INSERT
\* with a catalog entry in hand, and a row with its payload is stored.
C22_Witness ==
    /\ calls[1].op = "create" /\ calls[1].ret = "False"
    /\ \E p \in Calls : calls[p].pc = "insert" /\ calls[p].row.species \in SpeciesNames
    /\ \E r \in spawns : HasPayload(r)

\* The write-once columns of a spawn row.
PayloadOf(r) ==
    [spawn_id |-> r.spawn_id, chat_id |-> r.chat_id, species |-> r.species,
     level |-> r.level, is_shiny |-> r.is_shiny, rarity |-> r.rarity,
     spawned_at |-> r.spawned_at, expires_at |-> r.expires_at]

\* Call p ends a capture of spawn id with success in this step.
Captures(p, id) ==
    /\ calls[p].op = "catch" /\ calls[p].spawn_id = id
    /\ Returns(p) /\ calls'[p].ret = "Captured"

\* C23: no step rewrites a write-once column of a stored spawn: a row that a
\* step changes keeps its id, channel, species, level, shiny flag, rarity,
\* spawned_at and expires_at, the step is the commit of a capture of that very
\* spawn, and every other row is left as it was.
C23_PayloadWriteOnce ==
    [][\A r \in spawns :
          (r \notin spawns' /\ RowsById(r.spawn_id)' # {})
          => /\ \E n \in spawns' :
                  /\ PayloadOf(n) = PayloadOf(r)
                  /\ n.is_caught
             /\ \E p \in Calls : Captures(p, r.spawn_id)
             /\ \A o \in spawns : o.spawn_id # r.spawn_id => o \in spawns']_vars

\* C23 witness: two spawns are stored, a capture of one of them has returned
\* Captured and marked it, and the other one is still uncaught.
C23_Witness ==
    \E r, o \in spawns :
        /\ r.spawn_id # o.spawn_id
        /\ r.is_caught /\ r.caught_by \in Users
        /\ ~o.is_caught /\ o.caught_by = NoUser
        /\ CapturedCalls(r.spawn_id) # {}

\* Task t selects a channel and calls create_spawn in this step.
Selects(t) == tasks[t].pc = "ready" /\ tasks'[t].pc \in {"insert", "sleep"}

\* C24: register_channel and unregister_channel, run while a loop task is
\* suspended anywhere (in create_spawn, in a sleep), leave every task as it
\* is, and the loop goes on afterwards: a task whose channel was unregistered
\* under its create_spawn comes back to the loop test.  Every create_spawn a
\* loop issues is for a channel that is registered at the moment of the
\* selection, hence none while the set is empty.
C24_RegistrationSafeForLoop ==
    /\ [][\A t \in Tasks :
             /\ active_channels' # active_channels => tasks'[t] = tasks[t]
             /\ Selects(t) => /\ tasks'[t].chat_id \in active_channels
                              /\ active_channels' = active_channels]_vars
    /\ \A t \in Tasks :
          (tasks[t].pc = "insert" /\ tasks[t].chat_id \notin active_channels)
              ~> (tasks[t].pc \in {"ready", "idle"} \/ tasks[t].cancel)

\* C24 witness: the channel the loop selected has been unregistered while the
\* task is suspended in the INSERT of its create_spawn, and the task is alive.
C24_Witness ==
    \E t \in Tasks :
        /\ tasks[t].pc = "insert" /\ ~tasks[t].cancel
        /\ tasks[t].chat_id \notin active_channels
        /\ running

\* The loop tasks that are live: created, not ended, no cancellation pending.
LiveLoops == {t \in Tasks : Alive(tasks[t]) /\ ~tasks[t].cancel}

\* C25: whatever start_auto_spawning and stop_auto_spawning calls have been
\* made, at most one loop task is live, only a live task issues create_spawn
\* calls, and running is true exactly when a loop is live.
C25_OneLoopIffRunning ==
    /\ Cardinality(LiveLoops) <= 1
    /\ running <=> LiveLoops # {}
    /\ LiveLoops # {} => LiveLoops = {spawn_task}

\* C25 witness: a start was issued while a stop was still waiting for the
\* cancelled task to end: the old task has its cancellation pending, the new
\* one is the live loop.
C25_Witness ==
    /\ stop.pc = "await" /\ running
    /\ Alive(tasks[stop.task]) /\ tasks[stop.task].cancel
    /\ spawn_task # stop.task /\ spawn_task \in LiveLoops

\* Only a live task selects a channel and calls create_spawn.
OnlyLiveLoopsSelect == [][\A t \in Tasks : Selects(t) => t \in LiveLoops]_vars

\* What a get_active_spawn issued on chat answers from the cache, without
\* going to the store: the id of the cached spawn, or NoId on a miss.
GetAnswer(chat) == IF CacheHit(chat, now) THEN cache[chat].spawn_id ELSE NoId

\* A get_active_spawn that returns in the step it is issued in returns what
\* GetAnswer says.
GetCheckAnswers ==
    [][\A p \in Calls :
          (calls[p].pc = "idle" /\ calls'[p].op = "get" /\ calls'[p].pc = "done")
          => /\ calls'[p].ret = "Some"
             /\ calls'[p].spawn_id = GetAnswer(calls'[p].chat_id)]_vars

\* create_spawn has returned created = true for the spawn of row r, and r is
\* still the channel's Active spawn, the newest one stored for it.
CreatedAndActive(r) ==
    /\ \E q \in Calls : /\ calls[q].op = "create" /\ calls[q].ret = "True"
                        /\ calls[q].spawn_id = r.spawn_id
    /\ IsActive(r, now)
    /\ LatestOf(ActiveRows(r.chat_id, now)) = {r}

\* C26: from the return of create_spawn(c) with created = true for S until S
\* is captured or expires, a get_active_spawn(c) is answered with S and not
\* with an older spawn of c: the cache entry of c, from which the call is
\* answered when there is one, is the entry of S.
C26_GetReturnsNewSpawn ==
    \A r \in spawns :
        CreatedAndActive(r) => GetAnswer(r.chat_id) \in {NoId, r.spawn_id}

\* The state the claim is broken in by a get_active_spawn that read the store
\* before the create and filled the cache after it.
StaleGetFill ==
    \E r \in spawns, p \in Calls :
        /\ CreatedAndActive(r)
        /\ calls[p].op = "get" /\ calls[p].ret = "Some"
        /\ calls[p].chat_id = r.chat_id /\ calls[p].spawn_id # r.spawn_id
        /\ GetAnswer(r.chat_id) = calls[p].spawn_id

\* C27: whenever catch_spawn commits an owned-creature record, the spawn it
\* was made from is stored and marked caught by the record's owner; a capture
\* whose row was deleted by a cleanup sweep between its read and its write
\* creates no creature and does not return Captured.
C27_CreatureHasCaughtSpawn ==
    [][\A k \in pokemon' \ pokemon :
          \E p \in Calls :
              /\ calls[p].op = "catch" /\ Returns(p) /\ k.pokemon_id = p
              /\ k.owner_id = calls[p].user_id
              /\ \E r \in spawns' : /\ r.spawn_id = calls[p].spawn_id
                                    /\ r.is_caught
                                    /\ r.caught_by = k.owner_id]_vars

\* The state C27 excludes, reached through a sweep: a capture has returned
\* Captured and its creature record is stored, while no row of the spawn is.
CreatureOfSweptSpawn ==
    \E p \in Calls :
        /\ calls[p].op = "catch" /\ calls[p].ret = "Captured"
        /\ RowsById(calls[p].spawn_id) = {}
        /\ \E k \in pokemon : k.pokemon_id = p

\* A step that takes rows out of table spawns: a cleanup sweep.
Sweeps == spawns' # spawns /\ spawns' \subseteq spawns

\* C28: a cleanup sweep deletes exactly the stored spawns that are uncaught
\* and past their expires_at: no Active spawn and no captured spawn goes, and
\* the rows that stay are the rows that were there, field by field.
C28_SweepDeletesExpiredUncaught ==
    [][Sweeps =>
          /\ spawns \ spawns' = {r \in spawns : ~r.is_caught /\ r.expires_at < now}
          /\ \A r \in spawns : (IsActive(r, now) \/ r.is_caught) => r \in spawns'
          /\ pokemon' = pokemon]_vars

\* C28 witness: a sweep has run with two spawns stored: the row of the one
\* past its expires_at is gone and the Active one is still there.
C28_Witness ==
    /\ \E r \in spawns : IsActive(r, now)
    /\ \E q \in Calls : /\ calls[q].op = "create" /\ calls[q].ret = "True"
                        /\ RowsById(calls[q].spawn_id) = {}

\* spawn_handler, past the cooldown, asks get_active_spawn for channel c: the
\* call is issued in this step.
TriggerReads(p, c) ==
    calls[p].pc = "idle" /\ calls'[p].op = "get" /\ calls'[p].chat_id = c

\* `if active:` the handler shows the spawn it was handed and returns, and
\* create_spawn is not called.
ReportsExisting(p) == calls'[p].pc = "done" /\ calls'[p].ret = "Some"

\* C29: a manual spawn trigger in a channel whose store holds no Active spawn
\* is not answered with an existing spawn, whatever is left in the cache: its
\* get_active_spawn finds nothing and the handler goes on to create_spawn.
C29_TriggerReachesCreate ==
    [][\A p \in Calls, c \in Chats :
          (TriggerReads(p, c) /\ ActiveRows(c, now) = {}) => ~ReportsExisting(p)]_vars

\* C30: force_spawn_all_channels ends without error and has tried
\* create_spawn for exactly the channels that were registered when it
\* started, with the number of spawns created as its result, also when
\* register_channel or unregister_channel ran while it was suspended.
C30_ForceSpawnCompletes ==
    /\ force.pc # "raised"
    /\ force.pc = "done" => force.tried = force.start
    /\ force.tried \subseteq force.start
    /\ force.count <= Cardinality(force.tried)

====
